---- MODULE Spec2Model ----
(***************************************************************************)
(* Vibe Architect: the pipeline controller of App (executePipeline,        *)
(* executeRefinement), the agent calls of services/geminiService.ts and    *)
(* the display surface's enablement rules, as a state machine.             *)
(*                                                                         *)
(* An invocation of an async handler is a "flow": a record holding the     *)
(* values its closure captured, its local constants and the call it is     *)
(* awaiting.  A step of the model is one synchronous segment of the code:  *)
(* a handler up to its first await, or the continuation that runs when an  *)
(* awaited call resolves or rejects, up to the next await.                 *)
(***************************************************************************)
EXTENDS Naturals, Sequences, FiniteSets, TLC

VARIABLES
  repoUrl,          \* useState('')  part_000:78
  objective,        \* useState('')  part_000:79
  errorFeedback,    \* useState('')  part_000:80
  referenceImages,  \* useState<ImageRef[]>([])  part_000:81
  refinementInput,  \* useState('')  part_000:82
  state,            \* useState<AgentState>  part_000:84-89
  repoFilesRef,     \* useRef<RepoFile[]>([]).current  part_000:91
  flows,            \* the handler invocations that are awaiting a call
  event,            \* the step taken last: what ran, what the call returned
  parserInput,      \* parsePrompts' argument, a sequence of characters
  parsedPrompts,    \* parsePrompts' result  part_000:217
  parserPc,         \* "idle", "input" (text given) or "done" (text parsed)
  uploads,          \* the image selections handleImageUpload is still reading
  fetch             \* the fetchRepoContents invocation: its position and locals

appVars == <<repoUrl, objective, errorFeedback, referenceImages,
             refinementInput, state, repoFilesRef, flows, event, uploads, fetch>>

parserVars == <<parserInput, parsedPrompts, parserPc>>

vars == <<repoUrl, objective, errorFeedback, referenceImages, refinementInput,
          state, repoFilesRef, flows, event, parserInput, parsedPrompts, parserPc,
          uploads, fetch>>

----------------------------------------------------------------------------
(* Bounds of the model. *)

\* Number of distinct non-empty texts the language model may answer with.
MaxText == 1
\* Number of handler invocations that may be in flight at once.
MaxFlows == 2
\* Number of reference images attached or being read.
MaxImages == 2

----------------------------------------------------------------------------
(* Values. *)

\* null of `string | null`: a token no text of the model equals.
Null == "<null>"

\* JavaScript truthiness of a `string | null` value.
Truthy(v) == v # Null /\ v # ""

\* types.ts AgentStatus
IDLE == "IDLE"
FETCHING_REPO == "FETCHING_REPO"
SCOUT_WORKING == "SCOUT_WORKING"
ARCHITECT_WORKING == "ARCHITECT_WORKING"
TASKMASTER_WORKING == "TASKMASTER_WORKING"
REFINING == "REFINING"
COMPLETED == "COMPLETED"
ERROR == "ERROR"

AgentStatus == {IDLE, FETCHING_REPO, SCOUT_WORKING, ARCHITECT_WORKING,
                TASKMASTER_WORKING, REFINING, COMPLETED, ERROR}

\* types.ts INITIAL_MISSION_LOG (the manifesto text, abbreviated)
INITIAL_MISSION_LOG == "# MISSION CONTROL ... ## ENVIRONMENT MANIFESTO (IMMUTABLE LAWS) ..."

\* What the user may type into the text inputs.
UrlInputs == {"", "https://github.com/owner/repo"}
ObjectiveInputs == {"", "add dark mode"}
FeedbackInputs == {"", "build fails"}
RefinementInputs == {"", "step 2 has a syntax error"}

\* The files the user may pick in the file dialog (ImageRefs by name).
ImageSelections == {<<>>, <<"img1">>}

\* response.text of a generateContent call: empty (or undefined), or a text.
ResponseTexts == {""} \cup {"text" \o ToString(i) : i \in 1..MaxText}

\* File lists fetchRepoContents may resolve with (paths stand for RepoFiles).
FileLists == {<<>>, <<"package.json">>, <<"package.json", "App.tsx">>}

\* Messages of the errors fetchRepoContents may reject with: its own two
\* throws, and what fetch() / response.json() throw themselves (a message
\* of the runtime, possibly empty).
InvalidUrlMessage == "Invalid GitHub URL format. Use https://github.com/owner/repo"
TreeFailedMessage == "Failed to fetch repo tree: Not Found. Ensure repo is public."
TreeForbiddenMessage == "Failed to fetch repo tree: Forbidden. Ensure repo is public."
FetchErrorMessages ==
  {InvalidUrlMessage, TreeFailedMessage, TreeForbiddenMessage, "Failed to fetch", ""}

----------------------------------------------------------------------------
(* services/geminiService.ts: what each agent function returns or throws. *)

\* `response.text || "<placeholder>"`
OrElse(text, fallback) == IF Truthy(text) THEN text ELSE fallback

runScoutAgentReturn(text) == OrElse(text, "Error generating Scout response.")
runArchitectAgentReturn(text) == OrElse(text, "Error generating Architect response.")
\* A variant that returns response.text as it is.
runTaskmasterAgentReturnRaw(text) == text

runTaskmasterAgentReturn(text) == OrElse(text, "Error generating Taskmaster response.")
runRefinerAgentReturn(text) == OrElse(text, "Error generating Refiner response.")

runScoutAgentThrow == "Scout Agent failed to analyze repository."
runArchitectAgentThrow == "Architect Agent failed to plan."
runTaskmasterAgentThrow == "Taskmaster Agent failed to synthesize prompt."
runRefinerAgentThrow == "Refiner Agent failed to fix instructions."

----------------------------------------------------------------------------
(* Flows. *)

NoCall == [fn |-> "none"]

NoFlow ==
  [fn |-> "none", call |-> NoCall, repoUrl |-> "",
   objective |-> "", errorFeedback |-> "", referenceImages |-> <<>>,
   files |-> <<>>, scoutLog |-> Null, architectLog |-> Null]

\* The sequence s without its i-th element.
RemoveAt(s, i) == [j \in 1..(Len(s) - 1) |-> IF j < i THEN s[j] ELSE s[j + 1]]

\* The step taken: op names the code segment, ok whether the awaited call
\* resolved (or the handler passed its precondition), val the text the call
\* returned or the message it threw, prev the AgentState before the step and
\* flow the acting flow as it was before the step; raw is response.text
\* when the step is the continuation of an agent call that resolved.
Event(op, ok, val, flow) ==
  [op |-> op, ok |-> ok, val |-> val, prev |-> state, flow |-> flow,
   raw |-> Null]

\* The continuation of agent call op, whose generateContent call answered
\* raw and which returned val.
Resolved(op, raw, val, flow) == [Event(op, TRUE, val, flow) EXCEPT !.raw = raw]

----------------------------------------------------------------------------
(* The display surface: part_000:215-216 and the disabled= attributes. *)

isProcessing ==
  state.status # IDLE /\ state.status # COMPLETED /\ state.status # ERROR

isRefining == state.status = REFINING

\* part_000:252, 266, 321
InputsDisabled == isProcessing \/ isRefining

\* A variant that lets Execute be clicked while a run is in progress.
ExecuteDisabledOnEmptyOnly == ~Truthy(repoUrl) \/ ~Truthy(objective)

\* part_000:327
ExecuteDisabled ==
  isProcessing \/ isRefining \/ ~Truthy(repoUrl) \/ ~Truthy(objective)

\* part_000:409: the refinement section is rendered only with a finalPrompt
RefinementRendered == Truthy(state.finalPrompt)

\* part_000:463
RefinementInputDisabled == isRefining

\* A variant that leaves Auto-Fix enabled while a refinement is running.
RefineDisabledOnEmptyOnly == ~Truthy(refinementInput)

\* part_000:467
RefineDisabled == isRefining \/ ~Truthy(refinementInput)

\* part_000:281
UploadDisabled == isProcessing \/ isRefining

\* part_000:299
RemoveImageDisabled == isProcessing

----------------------------------------------------------------------------
(* Init: the state after App's first render. *)

\* fetchRepoContents is not running.  pc is the await the invocation is
\* at, requests the URLs it has called fetch() with, answered the branch of
\* the tree request that was answered with the tree.
FetchIdle ==
  [pc |-> "idle", owner |-> <<>>, repo |-> <<>>, requests |-> <<>>,
   answered |-> <<>>, dataUrl |-> <<>>, tree |-> <<>>, limitedFiles |-> <<>>,
   outcomes |-> <<>>, result |-> <<>>, message |-> ""]

AppInit ==
  /\ repoUrl = ""
  /\ objective = ""
  /\ errorFeedback = ""
  /\ referenceImages = <<>>
  /\ refinementInput = ""
  /\ state = [status |-> IDLE, missionLog |-> INITIAL_MISSION_LOG,
              finalPrompt |-> Null, error |-> Null]
  /\ repoFilesRef = <<>>
  /\ flows = <<>>
  /\ event = [op |-> "init", ok |-> TRUE, val |-> "", prev |-> state,
              flow |-> NoFlow, raw |-> Null]
  /\ uploads = <<>>
  /\ fetch = FetchIdle

\* No text is being parsed.
ParserIdle == parserInput = <<>> /\ parsedPrompts = <<>> /\ parserPc = "idle"

Init == AppInit /\ ParserIdle

----------------------------------------------------------------------------
(* The setState updaters of executePipeline, each a function of prev. *)

\* A variant that starts a run without resetting the mission log.
PipelineStartedKeepingLog(prev) ==
  [prev EXCEPT !.status = FETCHING_REPO, !.error = Null, !.finalPrompt = Null]

\* A variant that starts a run without dropping the prompts of the last one.
PipelineStartedKeepingPrompt(prev) ==
  [prev EXCEPT !.status = FETCHING_REPO, !.error = Null,
               !.missionLog = INITIAL_MISSION_LOG]

\* part_000:150
PipelineStarted(prev) ==
  [prev EXCEPT !.status = FETCHING_REPO, !.error = Null,
               !.missionLog = INITIAL_MISSION_LOG, !.finalPrompt = Null]

\* A variant that does not announce the Scout stage.
ScoutStartedSilently(prev) == prev

\* part_000:158
ScoutStarted(prev) == [prev EXCEPT !.status = SCOUT_WORKING]

\* part_000:160
ScoutLogged(prev, scoutLog) == [prev EXCEPT !.missionLog = scoutLog]

\* A variant that announces the wrong stage.
ArchitectStartedSkipping(prev) == [prev EXCEPT !.status = TASKMASTER_WORKING]

\* part_000:163
ArchitectStarted(prev) == [prev EXCEPT !.status = ARCHITECT_WORKING]

\* part_000:165
ArchitectLogged(prev, architectLog) == [prev EXCEPT !.missionLog = architectLog]

\* part_000:168
TaskmasterStarted(prev) == [prev EXCEPT !.status = TASKMASTER_WORKING]

\* A variant that completes without storing the Taskmaster's text.
PipelineCompletedStatusOnly(prev, finalPrompt) == [prev EXCEPT !.status = COMPLETED]

\* A variant that stores nothing when the Taskmaster has answered.
PipelineNotCompleted(prev, finalPrompt) == prev

\* part_000:171-175
PipelineCompleted(prev, finalPrompt) ==
  [prev EXCEPT !.status = COMPLETED, !.finalPrompt = finalPrompt]

\* A variant whose catch block also resets the mission log.
PipelineFailedResettingLog(prev, message) ==
  [prev EXCEPT !.status = ERROR, !.missionLog = INITIAL_MISSION_LOG,
               !.error = OrElse(message, "An unexpected error occurred in the pipeline.")]

\* A variant without the fallback for an error that has no message.
PipelineFailedNoFallback(prev, message) ==
  [prev EXCEPT !.status = ERROR, !.error = message]

\* part_000:177-183: the catch block
PipelineFailed(prev, message) ==
  [prev EXCEPT !.status = ERROR,
               !.error = OrElse(message, "An unexpected error occurred in the pipeline.")]

(* The calls executePipeline issues, with the arguments it passes. *)

\* part_000:154
FetchCall(f) == [fn |-> "fetchRepoContents", repoUrl |-> f.repoUrl]

\* part_000:159
ScoutCall(f, files) ==
  [fn |-> "runScoutAgent", objective |-> f.objective,
   errorFeedback |-> f.errorFeedback, files |-> files,
   images |-> f.referenceImages]

\* A variant that passes the mission log of the handler's closure (the
\* state of the render the run was started from) instead of the Scout's text.
ArchitectCallStale(f, scoutLog) ==
  [fn |-> "runArchitectAgent", currentMissionLog |-> INITIAL_MISSION_LOG,
   objective |-> f.objective, errorFeedback |-> f.errorFeedback,
   images |-> f.referenceImages]

\* A variant that passes the images attached when the Architect is called.
ArchitectCallLatestImages(f, scoutLog) ==
  [fn |-> "runArchitectAgent", currentMissionLog |-> scoutLog,
   objective |-> f.objective, errorFeedback |-> f.errorFeedback,
   images |-> referenceImages]

\* part_000:164
ArchitectCall(f, scoutLog) ==
  [fn |-> "runArchitectAgent", currentMissionLog |-> scoutLog,
   objective |-> f.objective, errorFeedback |-> f.errorFeedback,
   images |-> f.referenceImages]

\* part_000:169
TaskmasterCall(f, architectLog) ==
  [fn |-> "runTaskmasterAgent", fullMissionLog |-> architectLog,
   files |-> f.files]

----------------------------------------------------------------------------
(* executePipeline, part_000:147-184. *)

\* A variant that checks the locator only.
PipelinePreconditionUrlOnly == Truthy(repoUrl)

\* part_000:148: `if (!repoUrl || !objective) return;`
PipelinePrecondition == Truthy(repoUrl) /\ Truthy(objective)

\* The closure of the render the handler belongs to.
PipelineFlow ==
  [NoFlow EXCEPT !.fn = "executePipeline", !.repoUrl = repoUrl,
                 !.objective = objective, !.errorFeedback = errorFeedback,
                 !.referenceImages = referenceImages]

\* The handler, up to `await fetchRepoContents(repoUrl)`.
executePipeline ==
  IF PipelinePrecondition
  THEN /\ Len(flows) < MaxFlows
       /\ state' = PipelineStarted(state)
       /\ flows' = Append(flows, [PipelineFlow EXCEPT !.call = FetchCall(PipelineFlow)])
       /\ event' = Event("executePipeline", TRUE, "", PipelineFlow)
       /\ UNCHANGED <<parserVars, uploads, fetch, repoUrl, objective, errorFeedback, referenceImages,
                      refinementInput, repoFilesRef>>
  ELSE /\ event' = Event("executePipeline", FALSE, "", NoFlow)
       /\ UNCHANGED <<parserVars, uploads, fetch, repoUrl, objective, errorFeedback, referenceImages,
                      refinementInput, state, repoFilesRef, flows>>

\* Flow i's awaited call is fn.
Awaiting(i, fn) == i \in 1..Len(flows) /\ flows[i].call.fn = fn

\* A variant that does not retain the fetched files in the ref.
FetchResolvedWithoutRetaining(i, files) ==
  /\ Awaiting(i, "fetchRepoContents")
  /\ state' = ScoutStarted(state)
  /\ flows' = [flows EXCEPT ![i] = [@ EXCEPT !.files = files,
                                             !.call = ScoutCall(flows[i], files)]]
  /\ event' = Event("fetchRepoContents", TRUE, "", flows[i])
  /\ UNCHANGED <<parserVars, uploads, fetch, repoUrl, objective, errorFeedback, referenceImages,
                 refinementInput, repoFilesRef>>

\* part_000:154-159: fetchRepoContents resolved with files.
FetchResolved(i, files) ==
  /\ Awaiting(i, "fetchRepoContents")
  /\ repoFilesRef' = files
  /\ state' = ScoutStarted(state)
  /\ flows' = [flows EXCEPT ![i] = [@ EXCEPT !.files = files,
                                             !.call = ScoutCall(flows[i], files)]]
  /\ event' = Event("fetchRepoContents", TRUE, "", flows[i])
  /\ UNCHANGED <<parserVars, uploads, fetch, repoUrl, objective, errorFeedback, referenceImages, refinementInput>>

\* part_000:159-164: runScoutAgent resolved; text is response.text.
ScoutResolved(i, text) ==
  /\ Awaiting(i, "runScoutAgent")
  /\ LET scoutLog == runScoutAgentReturn(text) IN
       /\ state' = ArchitectStarted(ScoutLogged(state, scoutLog))
       /\ flows' = [flows EXCEPT ![i] = [@ EXCEPT !.scoutLog = scoutLog,
                                                  !.call = ArchitectCall(flows[i], scoutLog)]]
       /\ event' = Resolved("runScoutAgent", text, scoutLog, flows[i])
  /\ UNCHANGED <<parserVars, uploads, fetch, repoUrl, objective, errorFeedback, referenceImages,
                 refinementInput, repoFilesRef>>

\* part_000:164-169: runArchitectAgent resolved.
ArchitectResolved(i, text) ==
  /\ Awaiting(i, "runArchitectAgent")
  /\ LET architectLog == runArchitectAgentReturn(text) IN
       /\ state' = TaskmasterStarted(ArchitectLogged(state, architectLog))
       /\ flows' = [flows EXCEPT ![i] = [@ EXCEPT !.architectLog = architectLog,
                                                  !.call = TaskmasterCall(flows[i], architectLog)]]
       /\ event' = Resolved("runArchitectAgent", text, architectLog, flows[i])
  /\ UNCHANGED <<parserVars, uploads, fetch, repoUrl, objective, errorFeedback, referenceImages,
                 refinementInput, repoFilesRef>>

\* part_000:169-175: runTaskmasterAgent resolved; the handler returns.
TaskmasterResolved(i, text) ==
  /\ Awaiting(i, "runTaskmasterAgent")
  /\ LET finalPrompt == runTaskmasterAgentReturn(text) IN
       /\ state' = PipelineCompleted(state, finalPrompt)
       /\ event' = Resolved("runTaskmasterAgent", text, finalPrompt, flows[i])
  /\ flows' = RemoveAt(flows, i)
  /\ UNCHANGED <<parserVars, uploads, fetch, repoUrl, objective, errorFeedback, referenceImages,
                 refinementInput, repoFilesRef>>

\* The message of the error the awaited call fn rejects with.
PipelineThrows(fn) ==
  CASE fn = "fetchRepoContents" -> FetchErrorMessages
    [] fn = "runScoutAgent" -> {runScoutAgentThrow}
    [] fn = "runArchitectAgent" -> {runArchitectAgentThrow}
    [] fn = "runTaskmasterAgent" -> {runTaskmasterAgentThrow}
    [] OTHER -> {}

\* part_000:177-183: the awaited call rejected; the catch block runs and
\* the handler returns.
PipelineRejected(i, message) ==
  /\ i \in 1..Len(flows)
  /\ flows[i].fn = "executePipeline"
  /\ message \in PipelineThrows(flows[i].call.fn)
  /\ state' = PipelineFailed(state, message)
  /\ flows' = RemoveAt(flows, i)
  /\ event' = Event(flows[i].call.fn, FALSE, message, flows[i])
  /\ UNCHANGED <<parserVars, uploads, fetch, repoUrl, objective, errorFeedback, referenceImages,
                 refinementInput, repoFilesRef>>

----------------------------------------------------------------------------
(* executeRefinement, part_000:186-213. *)

\* A variant that checks the feedback only.
RefinementPreconditionFeedbackOnly == Truthy(refinementInput)

\* part_000:187: `if (!refinementInput || !state.finalPrompt) return;`
RefinementPrecondition == Truthy(refinementInput) /\ Truthy(state.finalPrompt)

\* A variant that starts a refinement without clearing the stored error.
RefinementStartedKeepingError(prev) == [prev EXCEPT !.status = REFINING]

\* part_000:189
RefinementStarted(prev) == [prev EXCEPT !.status = REFINING, !.error = Null]

\* A variant that appends the Refiner's text to the prompts instead of
\* replacing them.
RefinementCompletedAppending(prev, updatedPrompts) ==
  [prev EXCEPT !.status = COMPLETED,
               !.finalPrompt = prev.finalPrompt \o updatedPrompts]

\* part_000:199-203
RefinementCompleted(prev, updatedPrompts) ==
  [prev EXCEPT !.status = COMPLETED, !.finalPrompt = updatedPrompts]

\* A variant that drops the prompts on failure.
RefinementFailedClearing(prev, message) ==
  [prev EXCEPT !.status = ERROR, !.finalPrompt = Null,
               !.error = OrElse(message, "Failed to refine instructions.")]

\* part_000:206-212: the catch block
RefinementFailed(prev, message) ==
  [prev EXCEPT !.status = ERROR,
               !.error = OrElse(message, "Failed to refine instructions.")]

\* A variant that passes the ref's initial value instead of the retained files.
RefinerCallWithoutFiles ==
  [fn |-> "runRefinerAgent", currentPrompts |-> state.finalPrompt,
   feedback |-> refinementInput, fullMissionLog |-> state.missionLog,
   files |-> <<>>]

\* part_000:192-197: the arguments are read from the handler's closure
\* (the state of the render it belongs to) and from the ref.
RefinerCall ==
  [fn |-> "runRefinerAgent", currentPrompts |-> state.finalPrompt,
   feedback |-> refinementInput, fullMissionLog |-> state.missionLog,
   files |-> repoFilesRef]

RefinementFlow == [NoFlow EXCEPT !.fn = "executeRefinement"]

\* The handler, up to `await runRefinerAgent(...)`.
executeRefinement ==
  IF RefinementPrecondition
  THEN /\ Len(flows) < MaxFlows
       /\ state' = RefinementStarted(state)
       /\ flows' = Append(flows, [RefinementFlow EXCEPT !.call = RefinerCall])
       /\ event' = Event("executeRefinement", TRUE, "", RefinementFlow)
       /\ UNCHANGED <<parserVars, uploads, fetch, repoUrl, objective, errorFeedback, referenceImages,
                      refinementInput, repoFilesRef>>
  ELSE /\ event' = Event("executeRefinement", FALSE, "", NoFlow)
       /\ UNCHANGED <<parserVars, uploads, fetch, repoUrl, objective, errorFeedback, referenceImages,
                      refinementInput, state, repoFilesRef, flows>>

\* part_000:192-205: runRefinerAgent resolved; the handler returns.
RefinerResolved(i, text) ==
  /\ Awaiting(i, "runRefinerAgent")
  /\ LET updatedPrompts == runRefinerAgentReturn(text) IN
       /\ state' = RefinementCompleted(state, updatedPrompts)
       /\ event' = Resolved("runRefinerAgent", text, updatedPrompts, flows[i])
  /\ refinementInput' = ""
  /\ flows' = RemoveAt(flows, i)
  /\ UNCHANGED <<parserVars, uploads, fetch, repoUrl, objective, errorFeedback, referenceImages, repoFilesRef>>

\* part_000:206-212: runRefinerAgent rejected; the handler returns.
RefinerRejected(i) ==
  /\ Awaiting(i, "runRefinerAgent")
  /\ state' = RefinementFailed(state, runRefinerAgentThrow)
  /\ flows' = RemoveAt(flows, i)
  /\ event' = Event("runRefinerAgent", FALSE, runRefinerAgentThrow, flows[i])
  /\ UNCHANGED <<parserVars, uploads, fetch, repoUrl, objective, errorFeedback, referenceImages,
                 refinementInput, repoFilesRef>>

----------------------------------------------------------------------------
(* The text inputs' onChange handlers. *)

\* part_000:249
setRepoUrl(v) ==
  /\ repoUrl' = v
  /\ event' = Event("setRepoUrl", TRUE, v, NoFlow)
  /\ UNCHANGED <<parserVars, uploads, fetch, objective, errorFeedback, referenceImages, refinementInput,
                 state, repoFilesRef, flows>>

\* part_000:263
setObjective(v) ==
  /\ objective' = v
  /\ event' = Event("setObjective", TRUE, v, NoFlow)
  /\ UNCHANGED <<parserVars, uploads, fetch, repoUrl, errorFeedback, referenceImages, refinementInput,
                 state, repoFilesRef, flows>>

\* part_000:318
setErrorFeedback(v) ==
  /\ errorFeedback' = v
  /\ event' = Event("setErrorFeedback", TRUE, v, NoFlow)
  /\ UNCHANGED <<parserVars, uploads, fetch, repoUrl, objective, referenceImages, refinementInput,
                 state, repoFilesRef, flows>>

\* part_000:460
setRefinementInput(v) ==
  /\ refinementInput' = v
  /\ event' = Event("setRefinementInput", TRUE, v, NoFlow)
  /\ UNCHANGED <<parserVars, uploads, fetch, repoUrl, objective, errorFeedback, referenceImages,
                 state, repoFilesRef, flows>>

----------------------------------------------------------------------------
(* Reference images, part_000:114-145. *)

\* The number of images in the selections still being read.
RECURSIVE Pending(_)
Pending(us) == IF us = <<>> THEN 0 ELSE Len(Head(us)) + Pending(Tail(us))

\* part_000:114-136: the file input's onChange, up to `await
\* Promise.all(promises)`; a change without files does nothing.
handleImageUpload(files) ==
  IF Len(files) > 0
  THEN /\ Len(referenceImages) + Pending(uploads) + Len(files) <= MaxImages
       /\ uploads' = Append(uploads, files)
       /\ event' = Event("handleImageUpload", TRUE, "", NoFlow)
       /\ UNCHANGED <<parserVars, fetch, repoUrl, objective, errorFeedback,
                      referenceImages, refinementInput, state, repoFilesRef, flows>>
  ELSE /\ event' = Event("handleImageUpload", FALSE, "", NoFlow)
       /\ UNCHANGED <<parserVars, fetch, uploads, repoUrl, objective, errorFeedback,
                      referenceImages, refinementInput, state, repoFilesRef, flows>>

\* part_000:136-137: every reader of selection k has finished;
\* `setReferenceImages(prev => [...prev, ...processedImages])`.
ImagesLoaded(k) ==
  /\ k \in 1..Len(uploads)
  /\ referenceImages' = referenceImages \o uploads[k]
  /\ uploads' = RemoveAt(uploads, k)
  /\ event' = Event("readAsDataURL", TRUE, "", NoFlow)
  /\ UNCHANGED <<parserVars, fetch, repoUrl, objective, errorFeedback,
                 refinementInput, state, repoFilesRef, flows>>

\* part_000:143-145: `prev.filter((_, i) => i !== index)`
removeImage(index) ==
  /\ index \in 1..Len(referenceImages)
  /\ referenceImages' = RemoveAt(referenceImages, index)
  /\ event' = Event("removeImage", TRUE, "", NoFlow)
  /\ UNCHANGED <<parserVars, fetch, uploads, repoUrl, objective, errorFeedback,
                 refinementInput, state, repoFilesRef, flows>>

----------------------------------------------------------------------------
(* The awaited calls: each resolves or rejects at some time. *)

Calls ==
  \/ \E i \in 1..MaxFlows, files \in FileLists : FetchResolved(i, files)
  \/ \E i \in 1..MaxFlows, text \in ResponseTexts : ScoutResolved(i, text)
  \/ \E i \in 1..MaxFlows, text \in ResponseTexts : ArchitectResolved(i, text)
  \/ \E i \in 1..MaxFlows, text \in ResponseTexts : TaskmasterResolved(i, text)
  \/ \E i \in 1..MaxFlows, message \in FetchErrorMessages \cup
          {runScoutAgentThrow, runArchitectAgentThrow, runTaskmasterAgentThrow} :
        PipelineRejected(i, message)
  \/ \E i \in 1..MaxFlows, text \in ResponseTexts : RefinerResolved(i, text)
  \/ \E i \in 1..MaxFlows : RefinerRejected(i)

(* The user acting through the display surface: a control that is disabled
   or not rendered takes no input. *)

TypeRepoUrl(v) == ~InputsDisabled /\ setRepoUrl(v)
TypeObjective(v) == ~InputsDisabled /\ setObjective(v)
TypeErrorFeedback(v) == ~InputsDisabled /\ setErrorFeedback(v)
TypeRefinementInput(v) ==
  RefinementRendered /\ ~RefinementInputDisabled /\ setRefinementInput(v)
PickImages(files) == ~UploadDisabled /\ handleImageUpload(files)
ClickRemoveImage(index) == ~RemoveImageDisabled /\ removeImage(index)
ClickExecute == ~ExecuteDisabled /\ executePipeline
ClickRefine == RefinementRendered /\ ~RefineDisabled /\ executeRefinement

User ==
  \/ \E v \in UrlInputs : TypeRepoUrl(v)
  \/ \E v \in ObjectiveInputs : TypeObjective(v)
  \/ \E v \in FeedbackInputs : TypeErrorFeedback(v)
  \/ \E v \in RefinementInputs : TypeRefinementInput(v)
  \/ ClickExecute
  \/ ClickRefine

Next == User \/ Calls

Spec == Init /\ [][Next]_vars

(* The controller's commands issued directly: no control of the display
   surface stands between the caller and the handlers or the setters.  A
   command that passes its precondition is issued when no call is
   outstanding (one flow at a time); a command that fails it, in any state. *)

CmdExecutePipeline ==
  (PipelinePrecondition => flows = <<>>) /\ executePipeline

CmdExecuteRefinement ==
  (RefinementPrecondition => flows = <<>>) /\ executeRefinement

Commands ==
  \/ \E v \in UrlInputs : setRepoUrl(v)
  \/ \E v \in ObjectiveInputs : setObjective(v)
  \/ \E v \in FeedbackInputs : setErrorFeedback(v)
  \/ \E v \in RefinementInputs : setRefinementInput(v)
  \/ CmdExecutePipeline
  \/ CmdExecuteRefinement

NextCmd == Commands \/ Calls

(* The user who also attaches and removes reference images. *)

UserImages ==
  \/ \E files \in ImageSelections : PickImages(files)
  \/ \E index \in 1..MaxImages : ClickRemoveImage(index)

\* The FileReaders: the images of a selection are read at some time, or
\* never.
Loads == \E k \in 1..MaxImages : ImagesLoaded(k)

NextImages == User \/ UserImages \/ Calls \/ Loads

SpecImages == Init /\ [][NextImages]_vars

\* Every awaited call resolves or rejects at some time: none hangs.
SpecLive == Init /\ [][Next]_vars /\ WF_vars(Calls)

SpecCmd == Init /\ [][NextCmd]_vars

----------------------------------------------------------------------------
(* Properties. *)

PipelineCalls ==
  {"fetchRepoContents", "runScoutAgent", "runArchitectAgent", "runTaskmasterAgent"}

\* The status changed in the step taken last, from `from` to `to`.
Moved(from, to) == event.prev.status = from /\ state.status = to

Entered(to) == event.prev.status # to /\ state.status = to

Left(from) == event.prev.status = from /\ state.status # from

\* C1: within a run the status visits the stages in order, none skipped and
\* none revisited: scout-working is entered only from fetching,
\* architect-working only from scout-working, taskmaster-working only from
\* architect-working, completed only from taskmaster-working or refining;
\* and a stage is left only for the next one or for error.
C1_StagesInOrder ==
  /\ Entered(SCOUT_WORKING) => event.prev.status = FETCHING_REPO
  /\ Entered(ARCHITECT_WORKING) => event.prev.status = SCOUT_WORKING
  /\ Entered(TASKMASTER_WORKING) => event.prev.status = ARCHITECT_WORKING
  /\ Entered(COMPLETED) => event.prev.status \in {TASKMASTER_WORKING, REFINING}
  /\ Left(FETCHING_REPO) => state.status \in {SCOUT_WORKING, ERROR}
  /\ Left(SCOUT_WORKING) => state.status \in {ARCHITECT_WORKING, ERROR}
  /\ Left(ARCHITECT_WORKING) => state.status \in {TASKMASTER_WORKING, ERROR}
  /\ Left(TASKMASTER_WORKING) => state.status \in {COMPLETED, ERROR}

\* A run has passed fetching, Scout and Architect and its Taskmaster call
\* is outstanding.
C1_Witness ==
  /\ Moved(ARCHITECT_WORKING, TASKMASTER_WORKING)
  /\ Len(flows) = 1
  /\ flows[1].scoutLog # Null
  /\ flows[1].architectLog # Null

\* C2: the Architect is called with the text the run's Scout call returned
\* and the Taskmaster with the text its Architect call returned; when the
\* run completes missionLog is the Architect's text and finalPrompt the
\* Taskmaster's, which is not written to missionLog.
C2_OutputsThreaded ==
  /\ \A i \in 1..Len(flows) :
       /\ flows[i].call.fn = "runArchitectAgent" =>
            flows[i].call.currentMissionLog = flows[i].scoutLog
       /\ flows[i].call.fn = "runTaskmasterAgent" =>
            flows[i].call.fullMissionLog = flows[i].architectLog
  /\ event.op = "runScoutAgent" /\ event.ok =>
       /\ Len(flows) = 1
       /\ flows[1].call.fn = "runArchitectAgent"
       /\ flows[1].call.currentMissionLog = event.val
  /\ event.op = "runArchitectAgent" /\ event.ok =>
       /\ Len(flows) = 1
       /\ flows[1].call.fn = "runTaskmasterAgent"
       /\ flows[1].call.fullMissionLog = event.val
  /\ event.op = "runTaskmasterAgent" /\ event.ok =>
       /\ state.finalPrompt = event.val
       /\ state.missionLog = event.flow.architectLog
       /\ state.missionLog = event.flow.call.fullMissionLog

\* A run completed whose Scout, Architect and Taskmaster texts all differ.
C2_Witness ==
  /\ event.op = "runTaskmasterAgent" /\ event.ok
  /\ state.status = COMPLETED
  /\ event.flow.scoutLog # event.flow.architectLog
  /\ event.val # event.flow.architectLog
  /\ state.missionLog # INITIAL_MISSION_LOG

\* C3: when the fetch and the Scout, Architect and Taskmaster calls of a
\* run have all succeeded, the run has ended with status completed and a
\* non-null finalPrompt.
C3_SuccessCompletes ==
  event.op = "runTaskmasterAgent" /\ event.ok =>
    /\ event.flow.scoutLog # Null
    /\ event.flow.architectLog # Null
    /\ state.status = COMPLETED
    /\ state.finalPrompt # Null
    /\ flows = <<>>

\* The Taskmaster call of a run has just resolved, here with an empty text.
C3_Witness ==
  /\ event.op = "runTaskmasterAgent" /\ event.ok
  /\ event.val = "Error generating Taskmaster response."
  /\ event.prev.status = TASKMASTER_WORKING

\* The stored message tells which step failed: a stage's own message for a
\* stage, and for the fetch a message that is none of the stages'.
IdentifiesStep(error, fn) ==
  CASE fn = "runScoutAgent" -> error = runScoutAgentThrow
    [] fn = "runArchitectAgent" -> error = runArchitectAgentThrow
    [] fn = "runTaskmasterAgent" -> error = runTaskmasterAgentThrow
    [] fn = "runRefinerAgent" -> error = runRefinerAgentThrow
    [] OTHER -> error \notin {runScoutAgentThrow, runArchitectAgentThrow,
                              runTaskmasterAgentThrow, runRefinerAgentThrow}

\* C4: when the fetch or a stage call of a run fails, status is error, a
\* non-empty message identifying the failing step is stored, the run has
\* ended without another call (no later stage is invoked) and finalPrompt
\* is null; so after an Architect failure the Taskmaster was not invoked.
C4_FailureStops ==
  event.op \in PipelineCalls /\ ~event.ok =>
    /\ state.status = ERROR
    /\ Truthy(state.error)
    /\ IdentifiesStep(state.error, event.op)
    /\ flows = <<>>
    /\ state.finalPrompt = Null
    /\ event.op = "runArchitectAgent" => event.flow.architectLog = Null

\* The Architect call of a run has just failed.
C4_Witness ==
  /\ event.op = "runArchitectAgent" /\ ~event.ok
  /\ event.prev.status = ARCHITECT_WORKING
  /\ event.flow.scoutLog # Null

\* C5: executePipeline invoked with an empty locator or an empty objective
\* changes nothing in any status: the AgentState, the retained files and
\* the outstanding calls stay as they are (no fetch, no stage call).
C5_EmptyInputNoOp ==
  [][event'.op = "executePipeline" /\ (repoUrl = "" \/ objective = "") =>
       UNCHANGED <<state, repoFilesRef, flows, repoUrl, objective>>]_vars

\* executePipeline was invoked with an empty locator while a Scout call
\* was outstanding.
C5_Witness ==
  /\ event.op = "executePipeline" /\ ~event.ok
  /\ repoUrl = "" /\ objective # ""
  /\ state.status = SCOUT_WORKING
  /\ Len(flows) = 1

\* The AgentState a run starts from.
ResetState ==
  [status |-> FETCHING_REPO, missionLog |-> INITIAL_MISSION_LOG,
   finalPrompt |-> Null, error |-> Null]

\* C6: executePipeline invoked with non-empty locator and objective, from
\* idle, completed or error, leaves status fetching, missionLog the initial
\* manifesto, finalPrompt and error null when the fetch is issued; during
\* the run finalPrompt and error stay null and missionLog is the manifesto
\* or a text of this run.
C6_StartResets ==
  /\ event.op = "executePipeline" /\ event.ok =>
       /\ event.prev.status \in {IDLE, COMPLETED, ERROR}
       /\ state = ResetState
  /\ \A i \in 1..Len(flows) :
       /\ flows[i].call.fn = "fetchRepoContents" => state = ResetState
       /\ flows[i].fn = "executePipeline" =>
            /\ state.finalPrompt = Null
            /\ state.error = Null
            /\ state.missionLog =
                 CASE flows[i].call.fn = "runArchitectAgent" -> flows[i].scoutLog
                   [] flows[i].call.fn = "runTaskmasterAgent" -> flows[i].architectLog
                   [] OTHER -> INITIAL_MISSION_LOG

\* A run was started over the missionLog, finalPrompt and error that a
\* previous run and its failed refinement left.
C6_Witness ==
  /\ event.op = "executePipeline" /\ event.ok
  /\ event.prev.status = ERROR
  /\ event.prev.finalPrompt # Null
  /\ event.prev.error # Null
  /\ event.prev.missionLog # INITIAL_MISSION_LOG

\* C7 as stated: from status error the only status change is to fetching,
\* through executePipeline with non-empty locator and objective, and
\* refining is entered only from completed.
C7_ErrorOnlyToFetching ==
  /\ Left(ERROR) =>
       /\ state.status = FETCHING_REPO
       /\ event.op = "executePipeline"
       /\ Truthy(repoUrl) /\ Truthy(objective)
  /\ Entered(REFINING) => event.prev.status = COMPLETED

\* C7, amended: from status error the status changes only to fetching,
\* through executePipeline with non-empty locator and objective, or to
\* refining, through executeRefinement with non-empty feedback while the
\* error state still holds a finalPrompt; refining is entered only from
\* completed or from such an error state.
C7_ErrorToFetchingOrRefining ==
  /\ Left(ERROR) =>
       \/ /\ state.status = FETCHING_REPO
          /\ event.op = "executePipeline"
          /\ Truthy(repoUrl) /\ Truthy(objective)
       \/ /\ state.status = REFINING
          /\ event.op = "executeRefinement"
          /\ Truthy(refinementInput)
          /\ Truthy(event.prev.finalPrompt)
  /\ Entered(REFINING) =>
       /\ event.prev.status \in {COMPLETED, ERROR}
       /\ event.op = "executeRefinement"
       /\ Truthy(event.prev.finalPrompt)

\* A refinement was started from the error state a failed refinement left.
C7_Witness ==
  /\ Moved(ERROR, REFINING)
  /\ event.prev.error = runRefinerAgentThrow
  /\ Len(flows) = 1
  /\ flows[1].call.fn = "runRefinerAgent"

\* C8: when a Refiner call succeeds, finalPrompt is the text it returned
\* and nothing else, status is completed, the feedback input is empty and
\* missionLog is what it was.
C8_RefinementReplaces ==
  event.op = "runRefinerAgent" /\ event.ok =>
    /\ state.finalPrompt = event.val
    /\ state.status = COMPLETED
    /\ refinementInput = ""
    /\ state.missionLog = event.prev.missionLog
    /\ state.missionLog = event.flow.call.fullMissionLog
    /\ state.error = Null

\* A Refiner call has just resolved with a text other than the finalPrompt
\* it was given.
C8_Witness ==
  /\ event.op = "runRefinerAgent" /\ event.ok
  /\ event.prev.status = REFINING
  /\ event.val # event.flow.call.currentPrompts
  /\ event.flow.call.feedback # ""

\* C9: when a Refiner call fails, status is error, a non-empty message is
\* stored, and finalPrompt and missionLog are what they were when the
\* refinement was invoked.
C9_RefinementFailureKeeps ==
  event.op = "runRefinerAgent" /\ ~event.ok =>
    /\ state.status = ERROR
    /\ Truthy(state.error)
    /\ state.finalPrompt = event.flow.call.currentPrompts
    /\ state.missionLog = event.flow.call.fullMissionLog
    /\ Truthy(state.finalPrompt)

\* The Refiner call of a second refinement has just failed: finalPrompt is
\* the first refinement's text.
C9_Witness ==
  /\ event.op = "runRefinerAgent" /\ ~event.ok
  /\ event.prev.status = REFINING
  /\ state.finalPrompt = "Error generating Refiner response."

\* C10: executeRefinement invoked when no finalPrompt exists, or with empty
\* feedback, changes nothing: the AgentState, the feedback input, the
\* retained files and the outstanding calls stay as they are (no Refiner
\* call).
C10_RefinementNoOp ==
  [][event'.op = "executeRefinement" /\
       (state.finalPrompt = Null \/ refinementInput = "") =>
       UNCHANGED <<state, repoFilesRef, flows, refinementInput>>]_vars

\* executeRefinement was invoked with feedback but no finalPrompt, after a
\* run failed.
C10_Witness ==
  /\ event.op = "executeRefinement" /\ ~event.ok
  /\ state.finalPrompt = Null
  /\ refinementInput # ""
  /\ state.status = ERROR

\* C11: an executeRefinement that passes its precondition issues one
\* Refiner call and no fetch; the call carries the finalPrompt current at
\* invocation (after a refinement, the text that Refiner call returned),
\* the feedback, the current missionLog and the retained file list, which
\* is the list the run's fetch returned: the ref holds the run's files when
\* the run completes and changes only when a fetch resolves.
C11_RefinerCallInputs ==
  /\ [](event.op = "executeRefinement" /\ event.ok =>
          /\ Len(flows) = 1
          /\ flows[1].fn = "executeRefinement"
          /\ flows[1].call =
               [fn |-> "runRefinerAgent",
                currentPrompts |-> event.prev.finalPrompt,
                feedback |-> refinementInput,
                fullMissionLog |-> event.prev.missionLog,
                files |-> repoFilesRef])
  /\ [](event.op = "runTaskmasterAgent" /\ event.ok =>
          repoFilesRef = event.flow.files)
  /\ [](event.op = "runRefinerAgent" /\ event.ok =>
          state.finalPrompt = event.val /\ repoFilesRef = event.flow.call.files)
  /\ [][repoFilesRef' # repoFilesRef =>
          event'.op = "fetchRepoContents" /\ event'.ok]_vars

\* A second refinement was started: its Refiner call carries the text the
\* first Refiner call returned and the two files of the run's fetch.
C11_Witness ==
  /\ event.op = "executeRefinement" /\ event.ok
  /\ Len(flows) = 1
  /\ flows[1].call.fn = "runRefinerAgent"
  /\ flows[1].call.currentPrompts = "Error generating Refiner response."
  /\ flows[1].call.files = <<"package.json", "App.tsx">>
  /\ flows[1].call.fullMissionLog # INITIAL_MISSION_LOG

\* C12: at most one of the fetch phase, the Scout, Architect, Taskmaster
\* and Refiner calls is outstanding at any moment, for every sequence of
\* commands the display surface lets the user issue.
C12_OneCallAtATime == Len(flows) <= 1

\* A Refiner call is outstanding while locator, objective and feedback are
\* all filled in: only the disabled buttons keep a second call from starting.
C12_Witness ==
  /\ Len(flows) = 1
  /\ flows[1].call.fn = "runRefinerAgent"
  /\ Truthy(repoUrl) /\ Truthy(objective) /\ Truthy(refinementInput)

\* The status shown while call fn is outstanding.
StatusOf(fn) ==
  CASE fn = "fetchRepoContents" -> FETCHING_REPO
    [] fn = "runScoutAgent" -> SCOUT_WORKING
    [] fn = "runArchitectAgent" -> ARCHITECT_WORKING
    [] fn = "runTaskmasterAgent" -> TASKMASTER_WORKING
    [] fn = "runRefinerAgent" -> REFINING

\* C13: whenever a call is outstanding the status is that call's: fetching
\* during the fetch, scout-working during the Scout call, and so on; and a
\* working status is shown only while its call is outstanding.
C13_StatusFollowsCall ==
  /\ \A i \in 1..Len(flows) : state.status = StatusOf(flows[i].call.fn)
  /\ isProcessing => Len(flows) = 1

\* The Scout call is outstanding and the status says so.
C13_Witness ==
  /\ Len(flows) = 1
  /\ flows[1].call.fn = "runScoutAgent"
  /\ state.status = SCOUT_WORKING
  /\ event.op = "fetchRepoContents"

\* C14: a failure does not alter the mission log: when a run ends in error
\* missionLog is the output of the run's last successful stage (the
\* Architect's if the Taskmaster failed, the Scout's if the Architect
\* failed) or the manifesto if the fetch or the Scout failed, and the
\* failure step changes only status and error.
C14_FailureKeepsLog ==
  event.op \in PipelineCalls /\ ~event.ok =>
    /\ state.missionLog = event.prev.missionLog
    /\ state.finalPrompt = event.prev.finalPrompt
    /\ state.missionLog =
         CASE event.op = "runTaskmasterAgent" -> event.flow.architectLog
           [] event.op = "runArchitectAgent" -> event.flow.scoutLog
           [] OTHER -> INITIAL_MISSION_LOG

\* The Taskmaster call of a run has just failed; the Architect's text stays.
C14_Witness ==
  /\ event.op = "runTaskmasterAgent" /\ ~event.ok
  /\ state.status = ERROR
  /\ state.missionLog = "text1"
  /\ event.flow.scoutLog # "text1"

\* The placeholder agent call fn returns for an empty response.
PlaceholderOf(fn) ==
  CASE fn = "runScoutAgent" -> "Error generating Scout response."
    [] fn = "runArchitectAgent" -> "Error generating Architect response."
    [] fn = "runTaskmasterAgent" -> "Error generating Taskmaster response."
    [] fn = "runRefinerAgent" -> "Error generating Refiner response."

AgentCalls ==
  {"runScoutAgent", "runArchitectAgent", "runTaskmasterAgent", "runRefinerAgent"}

\* C20: a stage call that resolves with an empty text is no failure: the
\* stage's placeholder is its output, status is not error and no error is
\* stored, the pipeline goes on to the next stage with the placeholder as
\* input, and an empty Taskmaster or Refiner answer leaves a non-empty
\* finalPrompt equal to the placeholder.
C20_EmptyAnswerIsPlaceholder ==
  event.op \in AgentCalls /\ event.ok /\ event.raw = "" =>
    /\ event.val = PlaceholderOf(event.op)
    /\ state.status # ERROR
    /\ state.error = Null
    /\ event.op = "runScoutAgent" =>
         /\ state.status = ARCHITECT_WORKING
         /\ state.missionLog = PlaceholderOf(event.op)
         /\ flows[1].call.fn = "runArchitectAgent"
         /\ flows[1].call.currentMissionLog = PlaceholderOf(event.op)
    /\ event.op = "runArchitectAgent" =>
         /\ state.status = TASKMASTER_WORKING
         /\ state.missionLog = PlaceholderOf(event.op)
         /\ flows[1].call.fn = "runTaskmasterAgent"
         /\ flows[1].call.fullMissionLog = PlaceholderOf(event.op)
    /\ event.op \in {"runTaskmasterAgent", "runRefinerAgent"} =>
         /\ state.status = COMPLETED
         /\ state.finalPrompt = PlaceholderOf(event.op)
         /\ Truthy(state.finalPrompt)

\* The Taskmaster answered with an empty text after the Scout and the
\* Architect had done so too.
C20_Witness ==
  /\ event.op = "runTaskmasterAgent" /\ event.ok /\ event.raw = ""
  /\ event.flow.scoutLog = "Error generating Scout response."
  /\ event.flow.architectLog = "Error generating Architect response."
  /\ state.status = COMPLETED

----------------------------------------------------------------------------
(* parsePrompts, part_000:62-75.  A text is a sequence of characters (one-
   character strings).  The regular expression is

     /=== PROMPT (\d+): (.*?) ===([\s\S]*?)(?=(=== PROMPT|\z))/g

   It has no u flag, so \z is an identity escape: it matches the letter z.
   The model follows the matcher's order of alternatives: \d+ takes the
   longest run of digits for which the rest matches, (.*?) and ([\s\S]*?)
   the shortest. *)

\* Number of pieces a parser input is put together from.
MaxPieces == 3

SetMin(S) == CHOOSE x \in S : \A y \in S : x <= y
SetMax(S) == CHOOSE x \in S : \A y \in S : x >= y

\* The literal lit stands in t at position p.
StartsWith(t, p, lit) ==
  /\ p >= 1
  /\ p + Len(lit) - 1 <= Len(t)
  /\ \A j \in 1..Len(lit) : t[p + j - 1] = lit[j]

\* \d
IsDigit(c) == c \in {"0", "1", "2", "3", "4", "5", "6", "7", "8", "9"}

\* What `.` does not match: the line terminators.
IsLineTerminator(c) == c \in {"\n", "\r"}

\* What String.prototype.trim removes.
IsWhiteSpace(c) == c \in {" ", "\t", "\n", "\r"}

\* "=== PROMPT"
PromptMark == <<"=", "=", "=", " ", "P", "R", "O", "M", "P", "T">>

\* "=== PROMPT "
PromptHead == PromptMark \o <<" ">>

\* ": "
ColonSpace == <<":", " ">>

\* " ==="
PromptTail == <<" ", "=", "=", "=">>

\* (?=(=== PROMPT|\z)) at position p
LookaheadAt(t, p) ==
  \/ StartsWith(t, p, PromptMark)
  \/ StartsWith(t, p, <<"z">>)

\* The positions at which ([\s\S]*?), begun at cs, may end.
ContentEnds(t, cs) == {p \in cs..(Len(t) + 1) : LookaheadAt(t, p)}

\* A variant that is greedy: ([\s\S]*) takes the longest content.
ContentEndGreedy(t, cs) == SetMax(ContentEnds(t, cs))

\* ([\s\S]*?) is lazy: the first position at which the lookahead holds.
ContentEnd(t, cs) == SetMin(ContentEnds(t, cs))

\* The positions at which (.*?), begun at ts, may end: " ===" follows, no
\* line terminator was passed, and the rest of the expression matches.
TitleEnds(t, ts) ==
  {k \in ts..Len(t) :
     /\ StartsWith(t, k, PromptTail)
     /\ \A j \in ts..(k - 1) : ~IsLineTerminator(t[j])
     /\ ContentEnds(t, k + Len(PromptTail)) # {}}

\* The lengths (\d+), begun at ds, may have: digits only, ": " follows and
\* the rest of the expression matches.
DigitRuns(t, ds) ==
  {n \in 1..(Len(t) - ds + 1) :
     /\ \A j \in ds..(ds + n - 1) : IsDigit(t[j])
     /\ StartsWith(t, ds + n, ColonSpace)
     /\ TitleEnds(t, ds + n + Len(ColonSpace)) # {}}

\* The expression matches at position s.
HasMatch(t, s) ==
  /\ StartsWith(t, s, PromptHead)
  /\ DigitRuns(t, s + Len(PromptHead)) # {}

\* The match at s: its groups 1 to 3, and lastIndex after it.
MatchAt(t, s) ==
  LET ds == s + Len(PromptHead)
      n == SetMax(DigitRuns(t, ds))
      ts == ds + n + Len(ColonSpace)
      k == SetMin(TitleEnds(t, ts))
      cs == k + Len(PromptTail)
      p == ContentEnd(t, cs)
  IN  [id |-> SubSeq(t, ds, ds + n - 1),
       title |-> SubSeq(t, ts, k - 1),
       content |-> SubSeq(t, cs, p - 1),
       lastIndex |-> p]

\* text.matchAll(regex) from position `from` on: the leftmost match, then
\* the matches after its end.
RECURSIVE MatchAll(_, _)
MatchAll(t, from) ==
  LET starts == {s \in from..Len(t) : HasMatch(t, s)} IN
    IF starts = {} THEN <<>>
    ELSE LET m == MatchAt(t, SetMin(starts))
         IN  <<m>> \o MatchAll(t, m.lastIndex)

\* String.prototype.trim
Trim(c) ==
  LET kept == {i \in 1..Len(c) : ~IsWhiteSpace(c[i])} IN
    IF kept = {} THEN <<>> ELSE SubSeq(c, SetMin(kept), SetMax(kept))

\* "Complete Mission"
CompleteMission ==
  <<"C", "o", "m", "p", "l", "e", "t", "e", " ", "M", "i", "s", "s", "i", "o", "n">>

\* part_000:67
FallbackPrompts(t) == <<[id |-> <<"1">>, title |-> CompleteMission, content |-> t]>>

\* A variant that returns the (empty) list of matches when nothing matched.
parsePromptsWithoutFallback(t) ==
  LET matches == MatchAll(t, 1) IN
    [i \in 1..Len(matches) |->
       [id |-> matches[i].id, title |-> matches[i].title,
        content |-> Trim(matches[i].content)]]

\* part_000:62-75
parsePrompts(t) ==
  LET matches == MatchAll(t, 1) IN
    IF Len(matches) = 0
    THEN FallbackPrompts(t)
    ELSE [i \in 1..Len(matches) |->
            [id |-> matches[i].id, title |-> matches[i].title,
             content |-> Trim(matches[i].content)]]

----------------------------------------------------------------------------
(* The texts the parser is applied to. *)

\* "=== PROMPT <id>: <title> ==="
Delimiter(id, title) == PromptHead \o id \o ColonSpace \o title \o PromptTail

Setup == <<"S", "e", "t", "u", "p">>
Build == <<"B", "u", "i", "l", "d">>
DoX == <<"D", "o", " ", "X">>
DoY == <<"D", "o", " ", "Y">>
NewLine == <<"\n">>

\* "=== PROMPT 1: Setup ===\nDo X\n=== PROMPT 2: Build ===\nDo Y\n"
ScenarioText ==
  Delimiter(<<"1">>, Setup) \o NewLine \o DoX \o NewLine \o
  Delimiter(<<"2">>, Build) \o NewLine \o DoY \o NewLine

\* "=== PROM", the first half of a delimiter
HalfMark == <<"=", "=", "=", " ", "P", "R", "O", "M">>

\* "PT 3: C ===", the second half
HalfRest == <<"P", "T", " ", "3", ":", " ", "C", " ", "=", "=", "=">>

\* The pieces the other texts are put together from: two delimiters, a
\* body with white space around it, the letter z and the two halves.
Pieces ==
  { Delimiter(<<"1">>, <<"A">>),
    Delimiter(<<"2", "2">>, <<"B", " ", "b">>),
    NewLine \o DoX \o NewLine,
    <<"z">>,
    HalfMark,
    HalfRest }

RECURSIVE Flatten(_)
Flatten(ps) == IF ps = <<>> THEN <<>> ELSE Head(ps) \o Flatten(Tail(ps))

\* Three chunks whose contents are "=== PROM", "PT 3: C ====== PROM" and
\* "PT 3: C ===": joined, they spell two delimiters.
SplitMarksText ==
  Flatten(<<Delimiter(<<"1">>, <<"A">>), HalfMark,
            Delimiter(<<"1">>, <<"A">>), HalfRest, HalfMark,
            Delimiter(<<"1">>, <<"A">>), HalfRest, <<"z">>>>)

ParserInputs ==
  {ScenarioText, SplitMarksText} \cup
  {Flatten(ps) : ps \in UNION {[1..n -> Pieces] : n \in 0..MaxPieces}}

InitParse ==
  /\ AppInit
  /\ parserInput \in ParserInputs
  /\ parsedPrompts = <<>>
  /\ parserPc = "input"

\* part_000:217: parsePrompts(state.finalPrompt)
ParseText ==
  /\ parserPc = "input"
  /\ parsedPrompts' = parsePrompts(parserInput)
  /\ parserPc' = "done"
  /\ UNCHANGED <<appVars, parserInput>>

\* parsePrompts applied to the content of one of the chunks it returned.
ParseContent ==
  /\ parserPc = "done"
  /\ \E i \in 1..Len(parsedPrompts) :
       /\ parserInput' = parsedPrompts[i].content
       /\ parsedPrompts' = parsePrompts(parsedPrompts[i].content)
  /\ parserPc' = "reparsed"
  /\ UNCHANGED appVars

\* The contents of the chunks, one after the other.
JoinedContents(chunks) == Flatten([i \in 1..Len(chunks) |-> chunks[i].content])

\* parsePrompts applied to the concatenation of the contents it returned.
ParseJoined ==
  /\ parserPc = "done"
  /\ parserInput' = JoinedContents(parsedPrompts)
  /\ parsedPrompts' = parsePrompts(JoinedContents(parsedPrompts))
  /\ parserPc' = "rejoined"
  /\ UNCHANGED appVars

NextParse == ParseText \/ ParseContent \/ ParseJoined

SpecParse == InitParse /\ [][NextParse]_vars

----------------------------------------------------------------------------
(* services/githubService.ts.  Locators, paths and URLs are sequences of
   characters, as the parser's texts are. *)

\* String.prototype.endsWith
EndsWith(t, lit) == Len(lit) <= Len(t) /\ StartsWith(t, Len(t) - Len(lit) + 1, lit)

\* String.prototype.includes
Includes(t, lit) == \E p \in 1..Len(t) : StartsWith(t, p, lit)

\* String.prototype.split(sep) for a separator of one character.
RECURSIVE Split(_, _)
Split(t, sep) ==
  LET at == {i \in 1..Len(t) : t[i] = sep} IN
    IF at = {} THEN <<t>>
    ELSE <<SubSeq(t, 1, SetMin(at) - 1)>> \o
         Split(SubSeq(t, SetMin(at) + 1, Len(t)), sep)

\* null of `{ owner, repo } | null`
NullRepoInfo == [null |-> TRUE]

\* githubService.ts:6-17
parseRepoUrl(url) ==
  LET cleanUrl == IF EndsWith(url, <<"/">>) THEN SubSeq(url, 1, Len(url) - 1) ELSE url
      parts == Split(cleanUrl, "/")
  IN  IF Len(parts) < 2
      THEN NullRepoInfo
      ELSE [owner |-> parts[Len(parts) - 1], repo |-> parts[Len(parts)]]

\* githubService.ts:3
GITHUB_API_BASE ==
  <<"h", "t", "t", "p", "s", ":", "/", "/", "a", "p", "i", ".", "g", "i",
    "t", "h", "u", "b", ".", "c", "o", "m", "/", "r", "e", "p", "o", "s">>

\* "https://raw.githubusercontent.com"
RawContentBase ==
  <<"h", "t", "t", "p", "s", ":", "/", "/", "r", "a", "w", ".", "g", "i",
    "t", "h", "u", "b", "u", "s", "e", "r", "c", "o", "n", "t", "e", "n",
    "t", ".", "c", "o", "m">>

\* "/git/trees/"
GitTrees == <<"/", "g", "i", "t", "/", "t", "r", "e", "e", "s", "/">>

\* "?recursive=1"
Recursive == <<"?", "r", "e", "c", "u", "r", "s", "i", "v", "e", "=", "1">>

main == <<"m", "a", "i", "n">>
master == <<"m", "a", "s", "t", "e", "r">>

\* githubService.ts:39, 46
TreeUrl(owner, repo, branch) ==
  GITHUB_API_BASE \o <<"/">> \o owner \o <<"/">> \o repo \o GitTrees \o branch \o Recursive

\* githubService.ts:86
RawUrl(owner, repo, branch, path) ==
  RawContentBase \o <<"/">> \o owner \o <<"/">> \o repo \o <<"/">> \o branch \o <<"/">> \o path

\* githubService.ts:58
codeExtensions ==
  << <<".", "t", "s">>,
     <<".", "t", "s", "x">>,
     <<".", "j", "s">>,
     <<".", "j", "s", "x">>,
     <<".", "p", "y">>,
     <<".", "r", "b">>,
     <<".", "g", "o">>,
     <<".", "r", "s">>,
     <<".", "j", "a", "v", "a">>,
     <<".", "c">>,
     <<".", "c", "p", "p">>,
     <<".", "h">>,
     <<".", "c", "s", "s">>,
     <<".", "h", "t", "m", "l">>,
     <<".", "j", "s", "o", "n">>,
     <<".", "m", "d">> >>

\* githubService.ts:61
isCode(path) == \E e \in 1..Len(codeExtensions) : EndsWith(path, codeExtensions[e])

\* githubService.ts:63
isLock(path) ==
  \/ Includes(path, <<"l", "o", "c", "k">>)
  \/ Includes(path, <<"n", "o", "d", "e", "_", "m", "o", "d", "u", "l", "e", "s">>)
  \/ Includes(path, <<"d", "i", "s", "t", "/">>)
  \/ Includes(path, <<"b", "u", "i", "l", "d", "/">>)

\* githubService.ts:59-65: the filter's predicate
IsRelevant(item) == item.type = "blob" /\ isCode(item.path) /\ ~isLock(item.path)

\* "package.json"
PackageJson == <<"p", "a", "c", "k", "a", "g", "e", ".", "j", "s", "o", "n">>

\* githubService.ts:71-72
IsManifest(item) == EndsWith(item.path, PackageJson)

\* githubService.ts:74-75: `path.split('/').length`
Depth(item) == Len(Split(item.path, "/"))

\* The items of s, all at depth d or more, ordered by depth; items of the
\* same depth keep the order they had.
RECURSIVE ByDepth(_, _)
ByDepth(s, d) ==
  IF s = <<>> THEN <<>>
  ELSE SelectSeq(s, LAMBDA x : Depth(x) = d) \o
       ByDepth(SelectSeq(s, LAMBDA x : Depth(x) # d), d + 1)

\* The orders in which the items of s may be listed.
RECURSIVE Orders(_)
Orders(s) ==
  IF s = <<>> THEN {<<>>}
  ELSE UNION {{<<s[i]>> \o rest : rest \in Orders(RemoveAt(s, i))} : i \in 1..Len(s)}

\* githubService.ts:69-77: what Array.prototype.sort may leave.  The
\* comparator answers -1 for two manifests whichever comes first, so it is
\* not a consistent order and the order of the manifests among themselves
\* is the implementation's; every manifest compares below every other
\* file, and the other files are ordered by depth, stably.
SortResults(relevantFiles) ==
  {manifests \o ByDepth(SelectSeq(relevantFiles, LAMBDA x : ~IsManifest(x)), 1) :
     manifests \in Orders(SelectSeq(relevantFiles, IsManifest))}

\* githubService.ts:79
HardLimit == 20

\* Array.prototype.slice(0, n)
Slice(s, n) == SubSeq(s, 1, IF Len(s) < n THEN Len(s) ELSE n)

\* A variant that caps the list before sorting it.
LimitedFilesCappedFirst(tree) ==
  {Slice(sorted, HardLimit) :
     sorted \in SortResults(Slice(SelectSeq(tree, IsRelevant), HardLimit))}

\* githubService.ts:59-79: the lists limitedFiles may be for a tree.
LimitedFiles(tree) ==
  {Slice(sorted, HardLimit) : sorted \in SortResults(SelectSeq(tree, IsRelevant))}

\* githubService.ts:85: `data.url.includes('master') ? 'master' : 'main'`
BranchOf(dataUrl) == IF Includes(dataUrl, master) THEN master ELSE main

----------------------------------------------------------------------------
(* fetchRepoContents, githubService.ts:28-105, within a run. *)

\* Number of blocks of files a repository tree is put together from.
MaxBlocks == 3

\* The locators of the runs whose fetch is followed step by step.
Locators ==
  {"https://github.com/owner/repo", "https://github.com/owner/repo/",
   "https://github.com/owner/mastermind", "owner", "https://github.com",
   "https://github.com/owner"}

\* The characters of a locator.
LocatorChars(url) ==
  CASE url = "https://github.com/owner/repo" ->
         <<"h", "t", "t", "p", "s", ":", "/", "/", "g", "i", "t", "h", "u",
           "b", ".", "c", "o", "m", "/", "o", "w", "n", "e", "r", "/", "r",
           "e", "p", "o">>
    [] url = "https://github.com/owner/repo/" ->
         <<"h", "t", "t", "p", "s", ":", "/", "/", "g", "i", "t", "h", "u",
           "b", ".", "c", "o", "m", "/", "o", "w", "n", "e", "r", "/", "r",
           "e", "p", "o", "/">>
    [] url = "https://github.com/owner/mastermind" ->
         <<"h", "t", "t", "p", "s", ":", "/", "/", "g", "i", "t", "h", "u",
           "b", ".", "c", "o", "m", "/", "o", "w", "n", "e", "r", "/", "m",
           "a", "s", "t", "e", "r", "m", "i", "n", "d">>
    [] url = "owner" ->
         <<"o", "w", "n", "e", "r">>
    [] url = "https://github.com" ->
         <<"h", "t", "t", "p", "s", ":", "/", "/", "g", "i", "t", "h", "u",
           "b", ".", "c", "o", "m">>
    [] url = "https://github.com/owner" ->
         <<"h", "t", "t", "p", "s", ":", "/", "/", "g", "i", "t", "h", "u",
           "b", ".", "c", "o", "m", "/", "o", "w", "n", "e", "r">>

Digit == <<"0", "1", "2", "3", "4", "5", "6", "7", "8", "9">>

\* i, 0 to 99, in two digits
Numeral(i) == <<Digit[(i \div 10) + 1], Digit[(i % 10) + 1]>>

\* GitHubTreeItem, githubService.ts:19-26; size 0 stands for no size.
Blob(path, size) == [path |-> path, type |-> "blob", size |-> size]

\* "package.json" at the root
ManifestBlock == <<Blob(PackageJson, 7)>>

\* "f01.ts" to "f19.ts" at the root: with one file more the cap is reached.
RootBlock == [i \in 1..(HardLimit - 1) |-> Blob(<<"f">> \o Numeral(i) \o <<".", "t", "s">>, 0)]

\* Files in directories, a second manifest among them.
DeepBlock ==
  << Blob(<<"s", "r", "c", "/", "a", "p", "p", "/", "m", "a", "i", "n", ".", "t", "s", "x">>, 0),
     Blob(<<"a", "p", "p", "s", "/", "w", "e", "b", "/", "p", "a", "c", "k", "a", "g", "e", ".", "j", "s", "o", "n">>, 9),
     Blob(<<"s", "r", "c", "/", "u", "t", "i", "l", ".", "p", "y">>, 5) >>

\* What the filter removes: a directory, a lock file, an image,
\* dependencies, build output and a file with "lock" in its name.
OtherBlock ==
  << [path |-> <<"s", "r", "c">>, type |-> "tree", size |-> 0],
     Blob(<<"p", "a", "c", "k", "a", "g", "e", "-", "l", "o", "c", "k", ".", "j", "s", "o", "n">>, 3),
     Blob(<<"l", "o", "g", "o", ".", "p", "n", "g">>, 3),
     Blob(<<"n", "o", "d", "e", "_", "m", "o", "d", "u", "l", "e", "s", "/", "x", ".", "j", "s">>, 3),
     Blob(<<"d", "i", "s", "t", "/", "m", ".", "j", "s">>, 3),
     Blob(<<"b", "u", "i", "l", "d", "/", "b", ".", "j", "s">>, 3),
     Blob(<<"s", "r", "c", "/", "c", "l", "o", "c", "k", ".", "t", "s">>, 3) >>

Blocks == {ManifestBlock, RootBlock, DeepBlock, OtherBlock}

\* data.tree of the API's answer: blocks, each at most once, in any order.
Trees ==
  {Flatten(blocks) :
     blocks \in {b \in UNION {[1..n -> Blocks] : n \in 0..MaxBlocks} :
                   \A i, j \in 1..Len(b) : i # j => b[i] # b[j]}}

\* The id of a tree object
TreeSha == <<"9", "f", "b", "0", "3", "7">>

\* data.url of the API's answer for the tree of a branch: the API names
\* the tree by its id; the code expects the name of the branch in it.
DataUrls(owner, repo, branch) ==
  {GITHUB_API_BASE \o <<"/">> \o owner \o <<"/">> \o repo \o GitTrees \o name :
     name \in {TreeSha, branch}}

\* What a tree request may be answered with: the tree, a status that is
\* not ok, or a network error.
TreeResponses(owner, repo, branch) ==
  {[kind |-> "ok", tree |-> tree, url |-> url] :
     tree \in Trees, url \in DataUrls(owner, repo, branch)}
  \cup {[kind |-> "status", status |-> 404, statusText |-> "Not Found"],
        [kind |-> "status", status |-> 403, statusText |-> "Forbidden"],
        [kind |-> "throws", message |-> "Failed to fetch"]}

\* githubService.ts:50
TreeFailed(statusText) ==
  "Failed to fetch repo tree: " \o statusText \o ". Ensure repo is public."

\* How the content requests of a fetch end: all ok, none ok, all thrown,
\* or by turns.
FilePatterns == {"ok", "not ok", "throws", "by turns"}

OutcomeOf(pattern, j) ==
  IF pattern = "by turns" THEN <<"ok", "not ok", "throws">>[(j % 3) + 1] ELSE pattern

\* fileRes.text() and its length
ContentText == "text"
ContentLength == 4

\* githubService.ts:92-96
RepoFileOf(file) ==
  [path |-> file.path, content |-> ContentText,
   size |-> IF file.size # 0 THEN file.size ELSE ContentLength]

\* githubService.ts:88-104: null for a request that was not ok or threw,
\* and the nulls filtered out.
Results(limitedFiles, outcomes) ==
  LET upTo[j \in 0..Len(limitedFiles)] ==
        IF j = 0 THEN <<>>
        ELSE IF outcomes[j] = "ok"
             THEN Append(upTo[j - 1], RepoFileOf(limitedFiles[j]))
             ELSE upTo[j - 1]
  IN  upTo[Len(limitedFiles)]

\* A variant in which a content request that fails rejects the whole fetch.
ContentsSettledOrRejected(f, outcomes) ==
  IF \E j \in 1..Len(outcomes) : outcomes[j] # "ok"
  THEN [f EXCEPT !.pc = "rejected", !.outcomes = outcomes, !.message = "Failed to fetch"]
  ELSE [f EXCEPT !.pc = "resolved", !.outcomes = outcomes,
                 !.result = Results(f.limitedFiles, outcomes)]

\* githubService.ts:103-104: `await Promise.all(filePromises)` and the return
ContentsSettled(f, outcomes) ==
  [f EXCEPT !.pc = "resolved", !.outcomes = outcomes,
            !.result = Results(f.limitedFiles, outcomes)]

\* githubService.ts:29-42: from the call to the first tree request.
FetchStart(i) ==
  /\ Awaiting(i, "fetchRepoContents")
  /\ fetch.pc = "idle"
  /\ LET repoInfo == parseRepoUrl(LocatorChars(flows[i].call.repoUrl)) IN
       fetch' = IF repoInfo = NullRepoInfo
                THEN [fetch EXCEPT !.pc = "rejected", !.message = InvalidUrlMessage]
                ELSE [fetch EXCEPT !.pc = "tree main",
                                   !.owner = repoInfo.owner, !.repo = repoInfo.repo,
                                   !.requests = <<TreeUrl(repoInfo.owner, repoInfo.repo, main)>>]
  /\ UNCHANGED <<parserVars, uploads, repoUrl, objective, errorFeedback, referenceImages,
                 refinementInput, state, repoFilesRef, flows, event>>

\* The branch of the tree request that is outstanding.
Requested == IF fetch.pc = "tree main" THEN main ELSE master

\* githubService.ts:42-86: a tree request was answered.  A 404 for main is
\* followed by the request for master; any other failure is thrown; a tree
\* is filtered, sorted and capped, and the content requests are issued.
TreeAnswered(response, limitedFiles) ==
  /\ fetch.pc \in {"tree main", "tree master"}
  /\ response \in TreeResponses(fetch.owner, fetch.repo, Requested)
  /\ fetch' =
       CASE response.kind = "throws" ->
              [fetch EXCEPT !.pc = "rejected", !.message = response.message]
         [] response.kind = "status" /\ response.status = 404 /\ fetch.pc = "tree main" ->
              [fetch EXCEPT !.pc = "tree master",
                            !.requests = Append(@, TreeUrl(fetch.owner, fetch.repo, master))]
         [] response.kind = "status" /\ ~(response.status = 404 /\ fetch.pc = "tree main") ->
              [fetch EXCEPT !.pc = "rejected", !.message = TreeFailed(response.statusText)]
         [] response.kind = "ok" ->
              [fetch EXCEPT
                 !.pc = "contents", !.answered = Requested,
                 !.dataUrl = response.url, !.tree = response.tree,
                 !.limitedFiles = limitedFiles,
                 !.requests = @ \o [j \in 1..Len(limitedFiles) |->
                                      RawUrl(fetch.owner, fetch.repo,
                                             BranchOf(response.url), limitedFiles[j].path)]]
  /\ response.kind = "ok" => limitedFiles \in LimitedFiles(response.tree)
  /\ response.kind # "ok" => limitedFiles = <<>>
  /\ UNCHANGED <<parserVars, uploads, repoUrl, objective, errorFeedback, referenceImages,
                 refinementInput, state, repoFilesRef, flows, event>>

\* The API answers the outstanding tree request; the sort leaves one of
\* the orders it may leave.
TreeRequestAnswered ==
  /\ fetch.pc \in {"tree main", "tree master"}
  /\ \E response \in TreeResponses(fetch.owner, fetch.repo, Requested) :
       \E limitedFiles \in (IF response.kind = "ok"
                            THEN LimitedFiles(response.tree) ELSE {<<>>}) :
         TreeAnswered(response, limitedFiles)

\* githubService.ts:88-104: every content request has ended.
ContentsAnswered(pattern) ==
  /\ fetch.pc = "contents"
  /\ fetch' = ContentsSettled(fetch, [j \in 1..Len(fetch.limitedFiles) |-> OutcomeOf(pattern, j)])
  /\ UNCHANGED <<parserVars, uploads, repoUrl, objective, errorFeedback, referenceImages,
                 refinementInput, state, repoFilesRef, flows, event>>

\* part_000:154: `await fetchRepoContents(repoUrl)` resolves with the
\* invocation's result, or rejects with its error.
FetchSettled(i) ==
  \/ fetch.pc = "resolved" /\ FetchResolved(i, fetch.result)
  \/ fetch.pc = "rejected" /\ PipelineRejected(i, fetch.message)

\* The user of the one run that is followed: types a locator and an
\* objective, then clicks Execute.
TypeLocator(v) == fetch.pc = "idle" /\ flows = <<>> /\ TypeRepoUrl(v)
TypeTheObjective(v) == fetch.pc = "idle" /\ flows = <<>> /\ TypeObjective(v)
StartRun == fetch.pc = "idle" /\ ClickExecute

NextFetch ==
  \/ \E v \in Locators : TypeLocator(v)
  \/ \E v \in ObjectiveInputs : TypeTheObjective(v)
  \/ StartRun
  \/ \E i \in 1..MaxFlows : FetchStart(i)
  \/ TreeRequestAnswered
  \/ \E pattern \in FilePatterns : ContentsAnswered(pattern)
  \/ \E i \in 1..MaxFlows : FetchSettled(i)

SpecFetch == Init /\ [][NextFetch]_vars

----------------------------------------------------------------------------
(* What the claims call a well-formed delimiter, `=== PROMPT <number>:
   <title> ===`: the head, a run of digits, ": ", then a title on one line
   up to the first " ===".  Nothing is asked of what follows it. *)

DelimiterDigits(t, ds) ==
  {n \in 1..(Len(t) - ds + 1) :
     /\ \A j \in ds..(ds + n - 1) : IsDigit(t[j])
     /\ StartsWith(t, ds + n, ColonSpace)}

DelimiterTitleEnds(t, ts) ==
  {k \in ts..Len(t) :
     /\ StartsWith(t, k, PromptTail)
     /\ \A j \in ts..(k - 1) : ~IsLineTerminator(t[j])}

IsDelimiterAt(t, s) ==
  /\ StartsWith(t, s, PromptHead)
  /\ \E n \in DelimiterDigits(t, s + Len(PromptHead)) :
       DelimiterTitleEnds(t, s + Len(PromptHead) + n + Len(ColonSpace)) # {}

\* The delimiter at s: where it starts, its number and title, and the
\* position after it.
DelimiterAt(t, s) ==
  LET ds == s + Len(PromptHead)
      n == SetMax({m \in DelimiterDigits(t, ds) :
                     DelimiterTitleEnds(t, ds + m + Len(ColonSpace)) # {}})
      ts == ds + n + Len(ColonSpace)
      k == SetMin(DelimiterTitleEnds(t, ts))
  IN  [start |-> s,
       id |-> SubSeq(t, ds, ds + n - 1),
       title |-> SubSeq(t, ts, k - 1),
       after |-> k + Len(PromptTail)]

\* The delimiters of t from position `from` on, in order of appearance.
RECURSIVE Delimiters(_, _)
Delimiters(t, from) ==
  LET starts == {s \in from..Len(t) : IsDelimiterAt(t, s)} IN
    IF starts = {} THEN <<>>
    ELSE LET d == DelimiterAt(t, SetMin(starts))
         IN  <<d>> \o Delimiters(t, d.after)

\* The text from after the j-th delimiter up to the next delimiter, or up
\* to the end of the text for the last one.
SpanAfter(t, ds, j) ==
  SubSeq(t, ds[j].after, IF j < Len(ds) THEN ds[j + 1].start - 1 ELSE Len(t))

\* parsedPrompts is what parsePrompts returned for parserInput.
Parsed == parserPc # "input"

----------------------------------------------------------------------------
\* C15: the parser applied to the text "=== PROMPT 1: Setup ===\nDo X\n
\* === PROMPT 2: Build ===\nDo Y\n" returns exactly the two chunks
\* {id "1", title "Setup", content "Do X"} and {id "2", title "Build",
\* content "Do Y"}, in that order.
C15_ScenarioTwoChunks ==
  (parserPc = "done" /\ parserInput = ScenarioText) =>
    parsedPrompts = << [id |-> <<"1">>, title |-> Setup, content |-> DoX],
                       [id |-> <<"2">>, title |-> Build, content |-> DoY] >>

\* C16: for a text with N >= 1 well-formed delimiters the parser returns
\* exactly N chunks, one per delimiter in order of appearance, each with
\* the id and the title of its delimiter.
C16_OneChunkPerDelimiter ==
  LET ds == Delimiters(parserInput, 1) IN
    (Parsed /\ Len(ds) >= 1) =>
      /\ Len(parsedPrompts) = Len(ds)
      /\ \A j \in 1..Len(ds) :
           /\ parsedPrompts[j].id = ds[j].id
           /\ parsedPrompts[j].title = ds[j].title

\* C17: for a text with at least one delimiter, the content of each
\* returned chunk is the trimmed text from after its delimiter up to the
\* next delimiter, or up to the end of the text for the last delimiter.
C17_ContentIsTrimmedSpan ==
  LET ds == Delimiters(parserInput, 1) IN
    (Parsed /\ Len(ds) >= 1) =>
      \A j \in 1..Len(parsedPrompts) :
        /\ j <= Len(ds)
        /\ parsedPrompts[j].content = Trim(SpanAfter(parserInput, ds, j))

\* C18: for a text with no delimiter the parser returns exactly one chunk
\* with id "1", title "Complete Mission" and the whole text, untrimmed, as
\* content; the parser never returns an empty list.
C18_FallbackChunk ==
  Parsed =>
    /\ Delimiters(parserInput, 1) = <<>> =>
         parsedPrompts = << [id |-> <<"1">>, title |-> CompleteMission,
                             content |-> parserInput] >>
    /\ Len(parsedPrompts) >= 1

\* A text without delimiter that begins and ends with white space was
\* parsed and came back whole.
C18_Witness ==
  /\ parserPc = "done"
  /\ Delimiters(parserInput, 1) = <<>>
  /\ Len(parserInput) >= 2
  /\ IsWhiteSpace(parserInput[1])
  /\ IsWhiteSpace(parserInput[Len(parserInput)])
  /\ Len(parsedPrompts) = 1
  /\ parsedPrompts[1].content = parserInput

\* C19 as stated: parsing the concatenation of the contents of the chunks
\* returned for a text finds no delimiter (the pattern matches nowhere) and
\* returns the single fallback chunk.
C19_JoinedContentsFallBack ==
  parserPc = "rejoined" =>
    /\ MatchAll(parserInput, 1) = <<>>
    /\ parsedPrompts = FallbackPrompts(parserInput)

\* C19: parsing the content of any one chunk returned for a text finds no
\* delimiter (the pattern matches nowhere) and returns the single fallback
\* chunk, whose content is that content.
C19_ContentFallsBack ==
  parserPc = "reparsed" =>
    /\ MatchAll(parserInput, 1) = <<>>
    /\ parsedPrompts = FallbackPrompts(parserInput)

\* The content of a chunk cut out between two delimiters was parsed again.
C19_Witness ==
  /\ parserPc = "reparsed"
  /\ parserInput # <<>>
  /\ parsedPrompts = FallbackPrompts(parserInput)
  /\ parsedPrompts[1].title = CompleteMission

----------------------------------------------------------------------------
\* A run or a refinement is in progress.
Working ==
  state.status \in {FETCHING_REPO, SCOUT_WORKING, ARCHITECT_WORKING,
                    TASKMASTER_WORKING, REFINING}

\* C24: if every fetch and stage call resolves or rejects at some time,
\* every run and every refinement that has started (status fetching, a
\* working status or refining) reaches status completed or error.
C24_RunsEnd == Working ~> (state.status \in {COMPLETED, ERROR})

\* A run has ended with the Taskmaster's answer.
C24_Witness ==
  /\ event.op = "runTaskmasterAgent"
  /\ event.prev.status = TASKMASTER_WORKING
  /\ state.status = COMPLETED
  /\ flows = <<>>

\* C25: the stored error is non-null exactly when status is error; a
\* handler that starts a run or a refinement has cleared it, and a failure
\* has stored a non-empty message.
C25_ErrorIffStatusError ==
  /\ state.error # Null <=> state.status = ERROR
  /\ state.status = ERROR => Truthy(state.error)
  /\ event.op \in {"executePipeline", "executeRefinement"} /\ event.ok =>
       state.error = Null
  /\ event.op \in PipelineCalls \cup {"runRefinerAgent"} /\ ~event.ok =>
       Truthy(state.error)

\* A call failed with an error that has no message and the fallback text
\* was stored.
C25_Witness ==
  /\ event.op = "fetchRepoContents" /\ ~event.ok
  /\ event.val = ""
  /\ state.status = ERROR
  /\ state.error = "An unexpected error occurred in the pipeline."

\* Status is error and prompts are stored.
ErrorWithPrompt == state.status = ERROR /\ state.finalPrompt # Null

\* C26: status completed or refining implies a non-null, non-empty
\* finalPrompt; status idle, fetching or a working status implies a null
\* finalPrompt; and status error with a non-null finalPrompt arises only
\* by a failed refinement.
C26_PromptFollowsStatus ==
  /\ [](state.status \in {COMPLETED, REFINING} => Truthy(state.finalPrompt))
  /\ [](state.status \in {IDLE, FETCHING_REPO, SCOUT_WORKING, ARCHITECT_WORKING,
                          TASKMASTER_WORKING} => state.finalPrompt = Null)
  /\ [](ErrorWithPrompt /\ event.prev.status # ERROR =>
          event.op = "runRefinerAgent" /\ ~event.ok)
  /\ [][~ErrorWithPrompt /\ ErrorWithPrompt' =>
          event'.op = "runRefinerAgent" /\ ~event'.ok]_vars

\* A refinement failed and left status error with the prompts kept.
C26_Witness ==
  /\ ErrorWithPrompt
  /\ event.op = "runRefinerAgent" /\ ~event.ok
  /\ event.prev.status = REFINING

\* C27: whenever finalPrompt is non-null the retained files are those the
\* fetch of the run that produced it returned: when the Taskmaster of a
\* run answers, the ref holds that run's files; the ref changes only in a
\* step that leaves finalPrompt null; no run is in flight, and no run has
\* just failed, while finalPrompt is non-null.
C27_FilesOfSameRun ==
  /\ [](event.op = "runTaskmasterAgent" /\ event.ok =>
          repoFilesRef = event.flow.files)
  /\ [](\A i \in 1..Len(flows) :
          flows[i].fn = "executePipeline" => state.finalPrompt = Null)
  /\ [](event.op \in PipelineCalls /\ ~event.ok => state.finalPrompt = Null)
  /\ [][repoFilesRef' # repoFilesRef => state'.finalPrompt = Null]_vars

\* A later run has failed in its fetch while the ref still holds the files
\* of an earlier run: no prompts are stored.
C27_Witness ==
  /\ event.op = "fetchRepoContents" /\ ~event.ok
  /\ event.flow.files = <<>>
  /\ repoFilesRef = <<"package.json", "App.tsx">>
  /\ state.status = ERROR
  /\ state.finalPrompt = Null

----------------------------------------------------------------------------
\* C29: within a run the Scout and the Architect are called with the same
\* image list, the one attached when executePipeline was invoked, also
\* when a selection picked before the run is read during the run; the
\* Taskmaster and the Refiner are called without images.
C29_ImagesOfInvocation ==
  /\ [](event.op = "executePipeline" /\ event.ok =>
          flows[Len(flows)].referenceImages = referenceImages)
  /\ [](\A i \in 1..Len(flows) :
          /\ flows[i].call.fn \in {"runScoutAgent", "runArchitectAgent"} =>
               flows[i].call.images = flows[i].referenceImages
          /\ flows[i].call.fn \in {"runTaskmasterAgent", "runRefinerAgent"} =>
               "images" \notin DOMAIN flows[i].call)
  /\ [][\A i \in 1..Len(flows) :
          (i <= Len(flows') /\ flows[i].fn = "executePipeline"
             /\ event'.op \in PipelineCalls /\ event'.ok) =>
            flows'[i].referenceImages = flows[i].referenceImages]_vars

\* The Architect has been called with the images of the invocation after a
\* selection picked before the run was read during the run.
C29_Witness ==
  /\ Len(flows) = 1
  /\ flows[1].call.fn = "runArchitectAgent"
  /\ flows[1].call.images = <<"img1">>
  /\ flows[1].referenceImages = <<"img1">>
  /\ referenceImages = <<"img1", "img1">>
  /\ event.op = "runScoutAgent"
  /\ uploads = <<>>

----------------------------------------------------------------------------
(* What the claims call the owner and repo segments of a locator: the
   non-empty segments of its path, the scheme and the host set aside. *)

\* "https://"
Scheme == <<"h", "t", "t", "p", "s", ":", "/", "/">>

\* "github.com"
Host == <<"g", "i", "t", "h", "u", "b", ".", "c", "o", "m">>

PathSegments(url) ==
  LET rest == IF StartsWith(url, 1, Scheme)
              THEN SubSeq(url, Len(Scheme) + 1, Len(url)) ELSE url
      parts == Split(rest, "/")
  IN  SelectSeq(IF parts[1] = Host THEN Tail(parts) ELSE parts, LAMBDA x : x # <<>>)

Recognizable(url) == Len(PathSegments(url)) >= 2

\* C21: for a locator with fewer than two non-empty path segments naming
\* owner and repo, the fetch fails with the invalid-URL error and issues
\* no request; the run then goes from fetching to error without a stage
\* call.
C21_UnrecognizableIsRejected ==
  (fetch.pc # "idle" /\ ~Recognizable(LocatorChars(repoUrl))) =>
    /\ fetch.pc = "rejected"
    /\ fetch.message = InvalidUrlMessage
    /\ fetch.requests = <<>>
    /\ flows # <<>> => state.status = FETCHING_REPO /\ flows[1].call.fn = "fetchRepoContents"
    /\ flows = <<>> =>
         /\ state.status = ERROR
         /\ event.op = "fetchRepoContents" /\ ~event.ok
         /\ event.prev.status = FETCHING_REPO

\* The paths of the files whose content request ended ok, in list order.
OkPaths(files, outcomes) ==
  LET js == SelectSeq([j \in 1..Len(files) |-> j], LAMBDA j : outcomes[j] = "ok")
  IN  [k \in 1..Len(js) |-> files[js[k]].path]

\* The content requests have been issued.
ContentsRequested == fetch.pc \in {"contents", "resolved"}

\* C22: a content request that fails never fails the fetch: the fetch
\* resolves with the files, in the order of the capped list, whose content
\* request ended ok, it is rejected only before any content request, and
\* the run goes on to the Scout with the result, the empty list included.
C22_FileFailuresAreSkipped ==
  /\ fetch.pc = "resolved" =>
       /\ [k \in 1..Len(fetch.result) |-> fetch.result[k].path] =
            OkPaths(fetch.limitedFiles, fetch.outcomes)
       /\ \A k \in 1..Len(fetch.result) : fetch.result[k].content = ContentText
  /\ fetch.pc = "rejected" => fetch.outcomes = <<>> /\ Len(fetch.requests) <= 2
  /\ fetch.outcomes # <<>> => fetch.pc = "resolved"
  /\ (event.op = "fetchRepoContents" /\ event.ok) =>
       /\ fetch.pc = "resolved"
       /\ state.status = SCOUT_WORKING
       /\ flows[1].call.fn = "runScoutAgent"
       /\ flows[1].call.files = fetch.result
       /\ repoFilesRef = fetch.result

\* Every content request of a fetch failed, some of them thrown, and the
\* run has gone on to the Scout with no file.
C22_Witness ==
  /\ event.op = "fetchRepoContents" /\ event.ok
  /\ Len(fetch.limitedFiles) >= 2
  /\ \A j \in 1..Len(fetch.outcomes) : fetch.outcomes[j] = "throws"
  /\ fetch.result = <<>>
  /\ state.status = SCOUT_WORKING
  /\ flows[1].call.files = <<>>

\* The files of the tree that pass the filter and are not in the capped
\* list.
Dropped ==
  {fetch.tree[j] : j \in {j \in 1..Len(fetch.tree) :
     /\ IsRelevant(fetch.tree[j])
     /\ \A k \in 1..Len(fetch.limitedFiles) : fetch.limitedFiles[k] # fetch.tree[j]}}

\* C23: the fetch returns at most 20 files, each a blob whose path ends
\* with an allow-listed extension and contains none of 'lock',
\* 'node_modules', 'dist/', 'build/'; no manifest is dropped by the cap
\* while another file is kept, and no kept file that is not a manifest is
\* deeper than a dropped one.
C23_FilteredSortedCapped ==
  /\ fetch.pc = "contents" =>
       LET droppedManifest == \E dropped \in Dropped : IsManifest(dropped)
           droppedDepths == {Depth(dropped) : dropped \in Dropped}
       IN  /\ Len(fetch.limitedFiles) <= 20
           /\ \A k \in 1..Len(fetch.limitedFiles) :
                LET kept == fetch.limitedFiles[k] IN
                  /\ kept.type = "blob" /\ isCode(kept.path) /\ ~isLock(kept.path)
                  /\ \E j \in 1..Len(fetch.tree) : fetch.tree[j] = kept
                  /\ ~IsManifest(kept) =>
                       /\ ~droppedManifest
                       /\ \A depth \in droppedDepths : Depth(kept) <= depth
  /\ fetch.pc = "resolved" =>
       /\ Len(fetch.result) <= 20
       /\ \A k \in 1..Len(fetch.result) :
            \E j \in 1..Len(fetch.limitedFiles) :
              fetch.limitedFiles[j].path = fetch.result[k].path

\* A tree with more than 20 files that pass the filter, whose manifests
\* come last in the tree: the capped list is full, begins with the two
\* manifests and files were dropped.
C23_Witness ==
  /\ fetch.pc = "contents"
  /\ Len(fetch.limitedFiles) = 20
  /\ Dropped # {}
  /\ IsManifest(fetch.limitedFiles[1]) /\ IsManifest(fetch.limitedFiles[2])
  /\ fetch.tree[Len(fetch.tree)].path = PackageJson
  /\ ~IsManifest(fetch.tree[1])

\* C28: every content request of a fetch targets the branch of the tree
\* request that was answered with the tree, master exactly when main
\* answered 404 and master the tree, whatever the owner and repository
\* names are.
C28_ContentsFromTreeBranch ==
  ContentsRequested =>
    /\ fetch.answered = master <=> Len(fetch.requests) - Len(fetch.limitedFiles) = 2
    /\ \A j \in 1..Len(fetch.limitedFiles) :
         fetch.requests[Len(fetch.requests) - Len(fetch.limitedFiles) + j] =
           RawUrl(fetch.owner, fetch.repo, fetch.answered, fetch.limitedFiles[j].path)

====
